---- MODULE Spec2Model ----
(***************************************************************************)
(* A model of jecter1/deep_learning:                                       *)
(*   assignment2/layers.py, model.py    softmax / cross-entropy / L2,      *)
(*                                      Param, ReLULayer,                  *)
(*                                      FullyConnectedLayer, TwoLayerNet   *)
(*   assignment1/linear_classifer.py    LinearSoftmaxClassifier            *)
(*                                                                         *)
(* Arithmetic.  assignment2 is modelled over the reals, exactly: every     *)
(* number is a formal fraction num/den of polynomials with integer         *)
(* coefficients in the indeterminate t = e^(-1).  Parameter values and     *)
(* inputs are integers, so np.exp is only ever applied to integers k <= 0  *)
(* (scores minus their maximum) and exp(k) = t^(-k).  Because e is         *)
(* transcendental, two such fractions denote the same real iff they are    *)
(* equal as rational functions (FEq).  Float rounding is not modelled.     *)
(* assignment1's training loop feeds W back through exp, which leaves the  *)
(* exact domain; it is modelled on a decimal fixed-point grid (see the     *)
(* section on linear_classifer.py).                                        *)
(*                                                                         *)
(* numpy arrays are records [ndim, rows]: a 2-D array holds its rows, a    *)
(* 1-D array holds its entries as the single row and has ndim = 1.         *)
(* Python indices are 0-based; sequences here are 1-based, so class c is   *)
(* column c + 1.                                                           *)
(***************************************************************************)
EXTENDS Integers, Sequences, FiniteSets, TLC

VARIABLES
    \* ---- softmax_with_cross_entropy called on its own (layers.py)
    sce_pc,        \* "idle" | "done"
    sce_pred,      \* the predictions argument
    sce_target,    \* the target_index argument (a sequence of classes)
    sce_out,       \* the returned [loss, dprediction]
    \* ---- one FullyConnectedLayer and one ReLULayer called on their own
    fc,            \* the FullyConnectedLayer object
    fc_last,       \* its last call: "init" | "forward" | "backward"
    fc_arg,        \* the caller's argument array, as the call left it
    fc_ret,        \* the array the call returned
    fc_nback,      \* the number of backward calls so far
    fc_sum,        \* history: [W, B], the sums over the backward calls so far
                   \* of transpose(X) * d_out and of the column sums of d_out
    relu,          \* the ReLULayer object
    relu_last,     \* its last call: "init" | "forward" | "backward"
    relu_arg,      \* the caller's argument array, as the call left it
    relu_in,       \* history: the argument array as it was passed
    relu_ret,      \* the array the call returned
    \* ---- one TwoLayerNet (model.py)
    net_layers,    \* self.layers: layer number 0 .. 2 -> layer object
    net_reg,       \* self.reg
    net_pc,        \* "idle", or the position in compute_loss_and_gradients:
                   \* "forward" | "loss" | "reg" | "backward" | "return"
    net_i,         \* the layer number the loop at net_pc is at
    net_X,         \* the arguments of the call under way or last made
    net_y,
    net_res,       \* the locals res, loss and dres
    net_loss,
    net_dres,
    net_last,      \* the last call that returned: "init" | "loss" | "predict" | "step"
    net_ret,       \* what it returned
    net_dirty,     \* history: whether some gradient was nonzero when the
                   \* compute_loss_and_gradients call under way or last made began
    net_trace,     \* history: the steps of the compute_loss_and_gradients call
                   \* under way or last made, [op, i, arg, ret] each
    \* ---- one LinearSoftmaxClassifier (linear_classifer.py)
    lc_W,          \* self.W
    lc_pc,         \* "idle", or the position in fit: "epoch" (the head of the
                   \* epoch loop) | "batch" (the head of the batch loop)
    lc_args,       \* the arguments of the fit call under way or just left
    lc_epoch,      \* the locals epoch, batches_indices, loss, cnt, loss_history
    lc_batches,
    lc_b,          \* the place of the batch loop in batches_indices, from 1
    lc_loss,
    lc_cnt,
    lc_loss_history,
    lc_last,       \* the last call: "init" | "fit" (under way) | "returned" |
                   \* "raised" | "predict"
    lc_ret,        \* what it returned
    lc_nfit,       \* the number of fit calls made
    lc_used,       \* the number of epochs asked for so far
    lc_W0,         \* history: self.W when the epoch loop of that fit call began
    lc_splits      \* history: the batches_indices of each epoch of that fit call

sceVars == <<sce_pc, sce_pred, sce_target, sce_out>>
fcVars == <<fc, fc_last, fc_arg, fc_ret, fc_nback, fc_sum>>
reluVars == <<relu, relu_last, relu_arg, relu_in, relu_ret>>
netVars == <<net_layers, net_reg, net_pc, net_i, net_X, net_y, net_res, net_loss,
             net_dres, net_last, net_ret, net_dirty, net_trace>>
lcVars == <<lc_W, lc_pc, lc_args, lc_epoch, lc_batches, lc_b, lc_loss, lc_cnt,
            lc_loss_history, lc_last, lc_ret, lc_nfit, lc_used, lc_W0, lc_splits>>
vars == <<sceVars, fcVars, reluVars, netVars, lcVars>>

\* Python's None, and the value of an attribute not yet set, as an array of
\* no dimension (so that it can be compared with an array)
None == [ndim |-> 0, rows |-> <<>>]

(***************************************************************************)
(* Integer helpers                                                         *)
(***************************************************************************)
RECURSIVE SumInts(_)
SumInts(s) == IF s = <<>> THEN 0 ELSE s[1] + SumInts(Tail(s))

RECURSIVE MaxInts(_)
MaxInts(s) ==
    IF Len(s) = 1 THEN s[1]
    ELSE LET m == MaxInts(Tail(s)) IN IF s[1] >= m THEN s[1] ELSE m

Bigger(a, b) == IF a >= b THEN a ELSE b

(***************************************************************************)
(* Polynomials in t = e^(-1): the function from the exponents that occur   *)
(* to their nonzero integer coefficients; the zero polynomial is << >>.    *)
(***************************************************************************)
RECURSIVE SumOver(_, _)
\* the sum of f[x] over x in S
SumOver(S, f) ==
    IF S = {} THEN 0
    ELSE LET x == CHOOSE x \in S : TRUE IN f[x] + SumOver(S \ {x}, f)

PCoef(p, e) == IF e \in DOMAIN p THEN p[e] ELSE 0

\* the polynomial with coefficient c[e] at each e in E
PMake(E, c) == [e \in {x \in E : c[x] # 0} |-> c[e]]

PAdd(p, q) ==
    LET E == DOMAIN p \cup DOMAIN q
    IN  PMake(E, [e \in E |-> PCoef(p, e) + PCoef(q, e)])

PNeg(p) == [e \in DOMAIN p |-> 0 - p[e]]

PMul(p, q) ==
    LET E == {a + b : a \in DOMAIN p, b \in DOMAIN q}
    IN  PMake(E, [e \in E |-> SumOver(DOMAIN p, [a \in DOMAIN p |-> p[a] * PCoef(q, e - a)])])

\* the constant polynomial n
PConst(n) == IF n = 0 THEN <<>> ELSE [e \in {0} |-> n]

(***************************************************************************)
(* Numbers: formal fractions num/den, den a nonzero polynomial.            *)
(***************************************************************************)
Frac(n, d) == IF n = <<>> THEN [num |-> <<>>, den |-> PConst(1)] ELSE [num |-> n, den |-> d]

\* the integer n
Const(n) == Frac(PConst(n), PConst(1))

\* the value of a number that is an integer
IntOf(x) == PCoef(x.num, 0)

FAdd(a, b) ==
    IF a.den = b.den THEN Frac(PAdd(a.num, b.num), a.den)
    ELSE Frac(PAdd(PMul(a.num, b.den), PMul(b.num, a.den)), PMul(a.den, b.den))

FNeg(a) == Frac(PNeg(a.num), a.den)

FSub(a, b) == FAdd(a, FNeg(b))

FMul(a, b) == Frac(PMul(a.num, b.num), PMul(a.den, b.den))

\* a / b, b # 0
FDiv(a, b) == Frac(PMul(a.num, b.den), PMul(a.den, b.num))

\* equality of the reals two numbers denote
FEq(a, b) == PMul(a.num, b.den) = PMul(b.num, a.den)

RECURSIVE FSum(_)
FSum(s) == IF s = <<>> THEN Const(0) ELSE FAdd(s[1], FSum(Tail(s)))

\* np.exp at an integer k <= 0: e^k = t^(-k)
Exp(x) == Frac([e \in {0 - IntOf(x)} |-> 1], PConst(1))

(***************************************************************************)
(* numpy arrays                                                            *)
(***************************************************************************)
\* A sequence and a sequence of rows with every entry worked out once: the
\* value is the same, later reads do not compute the entries again.
Seq1(s) == SubSeq(s, 1, Len(s))
Rows(m) == Seq1([r \in 1 .. Len(m) |-> Seq1(m[r])])

\* the array of dimension ndim with the rows m
Arr(ndim, m) == [ndim |-> ndim, rows |-> Rows(m)]
Arr1(v) == Arr(1, <<v>>)
Arr2(m) == Arr(2, m)

\* a.shape
Shape(a) ==
    IF a.ndim = 1 THEN <<Len(a.rows[1])>>
    ELSE <<Len(a.rows), IF a.rows = <<>> THEN 0 ELSE Len(a.rows[1])>>

NRows(a) == Len(a.rows)
NCols(a) == IF a.rows = <<>> THEN 0 ELSE Len(a.rows[1])

\* arrays of one shape holding the same reals
ArrEq(a, b) ==
    /\ Shape(a) = Shape(b)
    /\ \A r \in 1 .. NRows(a) : \A c \in 1 .. NCols(a) : FEq(a.rows[r][c], b.rows[r][c])

\* np.zeros_like(a)
zeros_like(a) ==
    Arr(a.ndim, [r \in 1 .. NRows(a) |-> [c \in 1 .. NCols(a) |-> Const(0)]])

\* entry (r, c) of b broadcast to a larger shape
BCast(b, r, c) == b.rows[IF NRows(b) = 1 THEN 1 ELSE r][IF NCols(b) = 1 THEN 1 ELSE c]

\* a + b with b broadcast against a: a new array of the broadcast shape
BAdd(a, b) ==
    Arr(Bigger(a.ndim, b.ndim),
        [r \in 1 .. Bigger(NRows(a), NRows(b)) |->
            [c \in 1 .. Bigger(NCols(a), NCols(b)) |-> FAdd(BCast(a, r, c), BCast(b, r, c))]])

\* a += b: b is broadcast to a's shape and a keeps its shape
IAdd(a, b) ==
    Arr(a.ndim,
        [r \in 1 .. NRows(a) |-> [c \in 1 .. NCols(a) |-> FAdd(a.rows[r][c], BCast(b, r, c))]])

\* k * a for a number k
ArrScale(k, a) ==
    Arr(a.ndim, [r \in 1 .. NRows(a) |-> [c \in 1 .. NCols(a) |-> FMul(k, a.rows[r][c])]])

\* a.T of a 2-D array
Transpose(a) ==
    Arr2([c \in 1 .. NCols(a) |-> [r \in 1 .. NRows(a) |-> a.rows[r][c]]])

\* np.dot(a, b) of 2-D arrays, a's columns = b's rows
Dot(a, b) ==
    Arr2([r \in 1 .. NRows(a) |-> [c \in 1 .. NCols(b) |->
            FSum([k \in 1 .. NCols(a) |-> FMul(a.rows[r][k], b.rows[k][c])])]])

\* np.sum(a, axis=0) of a 2-D array: the 1-D array of column sums
SumAxis0(a) ==
    Arr1([c \in 1 .. NCols(a) |-> FSum([r \in 1 .. NRows(a) |-> a.rows[r][c]])])

\* np.sum(a) of all entries
SumAll(a) == FSum([r \in 1 .. NRows(a) |-> FSum(a.rows[r])])

(***************************************************************************)
(* layers.py: numeric primitives                                           *)
(***************************************************************************)
\* A loss value: lin - (sum of log(logs[i])) / n.  The logarithms of the
\* target probabilities stay symbolic.
Loss(lin, logs, n) == [lin |-> lin, logs |-> logs, n |-> n]

l2_regularization(W, reg_strength) ==
    LET squares == Arr(W.ndim, [r \in 1 .. NRows(W) |-> [c \in 1 .. NCols(W) |->
                        FMul(W.rows[r][c], W.rows[r][c])]])
        loss == FMul(reg_strength, SumAll(squares))
        grad == ArrScale(FMul(Const(2), reg_strength), W)
    IN  [loss |-> loss, grad |-> grad]

softmax(predictions) ==
    LET is_batch == predictions.ndim = 2
        P == predictions.rows
        RowMax(row) == MaxInts([c \in 1 .. Len(row) |-> IntOf(row[c])])
        \* per row for a batch, over the whole array otherwise
        max_pred_in_row == Seq1(IF is_batch THEN [r \in 1 .. Len(P) |-> RowMax(P[r])]
                                ELSE <<RowMax(P[1])>>)
        pred_norm == Rows([r \in 1 .. Len(P) |-> [c \in 1 .. Len(P[r]) |->
                        FSub(P[r][c], Const(max_pred_in_row[r]))]])
        pred_exp == Rows([r \in 1 .. Len(P) |-> [c \in 1 .. Len(P[r]) |->
                        Exp(pred_norm[r][c])]])
        sum_pred_exp == Seq1(IF is_batch THEN [r \in 1 .. Len(P) |-> FSum(pred_exp[r])]
                             ELSE <<FSum(pred_exp[1])>>)
        probs == [r \in 1 .. Len(P) |-> [c \in 1 .. Len(P[r]) |->
                        FDiv(pred_exp[r][c], sum_pred_exp[r])]]
    IN  Arr(predictions.ndim, probs)

cross_entropy_loss(probs, target_index) ==
    LET is_batch == probs.ndim = 2
        target_probs ==
            IF is_batch
            THEN [i \in 1 .. Len(target_index) |-> probs.rows[i][target_index[i] + 1]]
            ELSE [i \in 1 .. Len(target_index) |-> probs.rows[1][target_index[i] + 1]]
    IN  \* -np.mean(np.log(target_probs))
        Loss(Const(0), Seq1(target_probs), Len(target_probs))

\* the gradient without the batch division
SceNoBatchDivision(predictions, target_index) ==
    LET probs == softmax(predictions)
        is_batch == probs.ndim = 2
        Hit(r, c) == IF is_batch
                     THEN r <= Len(target_index) /\ target_index[r] + 1 = c
                     ELSE \E i \in 1 .. Len(target_index) : target_index[i] + 1 = c
        minus_one == [r \in 1 .. NRows(probs) |-> [c \in 1 .. NCols(probs) |->
                        IF Hit(r, c) THEN FSub(probs.rows[r][c], Const(1))
                        ELSE probs.rows[r][c]]]
    IN  [loss |-> cross_entropy_loss(probs, target_index),
         dprediction |-> Arr(probs.ndim, minus_one)]

softmax_with_cross_entropy(predictions, target_index) ==
    LET probs == softmax(predictions)
        loss == cross_entropy_loss(probs, target_index)
        is_batch == probs.ndim = 2
        \* dprediction[np.arange(target_index.size), target_index] -= 1, or
        \* dprediction[target_index] -= 1
        Hit(r, c) == IF is_batch
                     THEN r <= Len(target_index) /\ target_index[r] + 1 = c
                     ELSE \E i \in 1 .. Len(target_index) : target_index[i] + 1 = c
        minus_one == Rows([r \in 1 .. NRows(probs) |-> [c \in 1 .. NCols(probs) |->
                        IF Hit(r, c) THEN FSub(probs.rows[r][c], Const(1))
                        ELSE probs.rows[r][c]]])
        \* dprediction /= target_index.size, for a batch only
        dprediction == IF is_batch
                       THEN [r \in 1 .. NRows(probs) |-> [c \in 1 .. NCols(probs) |->
                                FDiv(minus_one[r][c], Const(Len(target_index)))]]
                       ELSE minus_one
    IN  [loss |-> loss, dprediction |-> Arr(probs.ndim, dprediction)]

(***************************************************************************)
(* Inputs of the model                                                     *)
(***************************************************************************)
\* the largest batch
MaxBatch == 2
\* the numbers of classes
ClassCounts == {2, 3}
\* the integer scores an input array may hold
Scores == {-1, 2}

\* all sequences of length n over S
SeqsOf(S, n) == [1 .. n -> S]

IntRow(v) == [c \in 1 .. Len(v) |-> Const(v[c])]

\* the 1-D integer arrays of length n and the 2-D ones of shape (b, n)
Arrays1(S, n) == {Arr1(IntRow(v)) : v \in SeqsOf(S, n)}
Arrays2(S, b, n) == {Arr2([r \in 1 .. b |-> IntRow(m[r])]) : m \in [1 .. b -> SeqsOf(S, n)]}

(***************************************************************************)
(* softmax_with_cross_entropy called on its own                            *)
(***************************************************************************)
SceInit ==
    /\ sce_pc = "idle"
    /\ sce_out = None
    /\ \E n \in ClassCounts :
         \/ /\ sce_pred \in Arrays1(Scores, n)
            /\ sce_target \in SeqsOf(0 .. n - 1, 1)
         \/ \E b \in 1 .. MaxBatch :
              /\ sce_pred \in Arrays2(Scores, b, n)
              /\ sce_target \in SeqsOf(0 .. n - 1, b)

SceCall ==
    /\ sce_pc = "idle"
    /\ sce_out' = softmax_with_cross_entropy(sce_pred, sce_target)
    /\ sce_pc' = "done"
    /\ UNCHANGED <<sce_pred, sce_target>>

\* the state while softmax_with_cross_entropy is not under study
SceOff == sce_pc = "off" /\ sce_pred = None /\ sce_target = None /\ sce_out = None

\* C8: the gradient softmax_with_cross_entropy returns is softmax(predictions)
\* with 1 subtracted at each row's true class, divided by the batch size for a
\* 2-D input and not divided for a 1-D input; every row of it sums to 0; and
\* row r of a batch's gradient is 1/batch_size times the gradient of the single
\* sample (predictions[r], target_index[r]).
C8_Gradient ==
    sce_pc = "done" =>
        LET d == sce_out.dprediction
            p == softmax(sce_pred)
            n == Len(sce_target)
            k == IF sce_pred.ndim = 2 THEN n ELSE 1
            Hot(r, c) == IF sce_target[r] + 1 = c THEN Const(1) ELSE Const(0)
        IN  /\ Shape(d) = Shape(sce_pred)
            /\ \A r \in 1 .. NRows(d) : \A c \in 1 .. NCols(d) :
                 FEq(FMul(Const(k), d.rows[r][c]), FSub(p.rows[r][c], Hot(r, c)))
            /\ \A r \in 1 .. NRows(d) : FEq(FSum(d.rows[r]), Const(0))
            /\ sce_pred.ndim = 2 =>
                 \A r \in 1 .. NRows(d) :
                    LET single == softmax_with_cross_entropy(
                                     Arr1(sce_pred.rows[r]), <<sce_target[r]>>).dprediction
                    IN  /\ single.ndim = 1
                        /\ \A c \in 1 .. NCols(d) :
                             FEq(FMul(Const(n), d.rows[r][c]), single.rows[1][c])

\* a batch of two samples with different scores has been differentiated
C8_Witness ==
    /\ sce_pc = "done"
    /\ sce_pred.ndim = 2
    /\ NRows(sce_pred) = 2
    /\ NCols(sce_pred) = 3
    /\ sce_pred.rows[1] # sce_pred.rows[2]
    /\ sce_target[1] # sce_target[2]
    /\ \E c \in 1 .. 3 : ~FEq(sce_out.dprediction.rows[1][c], sce_out.dprediction.rows[2][c])

(***************************************************************************)
(* layers.py: Param, ReLULayer, FullyConnectedLayer.  A method is an       *)
(* operator from the object and the argument array to the object, the      *)
(* argument array and the returned array as the call leaves them.          *)
(***************************************************************************)
Param(value) == [value |-> value, grad |-> zeros_like(value)]

\* x < 0 and max(0, x), for the integers the layers are fed
IsNeg(x) == IntOf(x) < 0
Max0(x) == IF IsNeg(x) THEN Const(0) ELSE x

ReLULayer == [kind |-> "ReLU", X |-> None]

ReLULayer_forward(self, X) ==
    [self |-> [self EXCEPT !.X = X],
     arg |-> X,
     ret |-> Arr(X.ndim, [r \in 1 .. NRows(X) |-> [c \in 1 .. NCols(X) |-> Max0(X.rows[r][c])]])]

\* backward that masks where the cached input is not positive
ReluBackwardNonPositive(self, d_out) ==
    LET d_result == Arr(d_out.ndim, [r \in 1 .. NRows(d_out) |-> [c \in 1 .. NCols(d_out) |->
                                IF IntOf(self.X.rows[r][c]) <= 0 THEN Const(0)
                                ELSE d_out.rows[r][c]]])
    IN  [self |-> self, arg |-> d_out, ret |-> d_result]

ReLULayer_backward(self, d_out) ==
    \* d_result = d_out.copy(); d_result[self.X < 0] = 0
    LET d_result == Arr(d_out.ndim, [r \in 1 .. NRows(d_out) |-> [c \in 1 .. NCols(d_out) |->
                                IF IsNeg(self.X.rows[r][c]) THEN Const(0)
                                ELSE d_out.rows[r][c]]])
    IN  [self |-> self, arg |-> d_out, ret |-> d_result]

\* an empty dict
ReLULayer_params(self) == [k \in {} |-> None]

\* the draws of np.random.randn(n, m): a few integer arrays stand for them
\* (two for a matrix, one for a row).  The source scales the draws by 0.001;
\* no operation depends on the scale, and the exact arithmetic needs integer
\* scores under np.exp.
Randn(n, m) ==
    {Arr2([r \in 1 .. n |-> [c \in 1 .. m |-> Const(IF (r + c) % 2 = 0 THEN 1 ELSE b)]]) :
        b \in IF n = 1 THEN {2} ELSE {-1, 2}}

\* FullyConnectedLayer(n_input, n_output), given the two random draws
FullyConnectedLayer(w, b) == [kind |-> "FC", W |-> Param(w), B |-> Param(b), X |-> None]

\* forward that also clears the weight gradient
FcForwardClearsGrad(self, X) ==
    [self |-> [self EXCEPT !.X = X, !.W.grad = zeros_like(self.W.value)],
     arg |-> X,
     ret |-> BAdd(Dot(X, self.W.value), self.B.value)]

FullyConnectedLayer_forward(self, X) ==
    [self |-> [self EXCEPT !.X = X],
     arg |-> X,
     ret |-> BAdd(Dot(X, self.W.value), self.B.value)]

\* backward that assigns the gradients instead of adding to them
FcBackwardOverwrite(self, d_out) ==
    [self |-> [self EXCEPT !.W.grad = Dot(Transpose(self.X), d_out),
                           !.B.grad = SumAxis0(d_out)],
     arg |-> d_out,
     ret |-> Dot(d_out, Transpose(self.W.value))]

\* backward that leaves the bias gradient as the flat array of its entries
FcBackwardFlatBias(self, d_out) ==
    [self |-> [self EXCEPT !.W.grad = IAdd(@, Dot(Transpose(self.X), d_out)),
                           !.B.grad = Arr1(IAdd(@, SumAxis0(d_out)).rows[1])],
     arg |-> d_out,
     ret |-> Dot(d_out, Transpose(self.W.value))]

FullyConnectedLayer_backward(self, d_out) ==
    [self |-> [self EXCEPT !.W.grad = IAdd(@, Dot(Transpose(self.X), d_out)),
                           !.B.grad = IAdd(@, SumAxis0(d_out))],
     arg |-> d_out,
     ret |-> Dot(d_out, Transpose(self.W.value))]

\* {'W': self.W, 'B': self.B}: the names of the attributes the dict refers to
FullyConnectedLayer_params(self) == [k \in {"W", "B"} |-> k]

(***************************************************************************)
(* The two layers called on their own                                      *)
(***************************************************************************)
\* the sizes of the stand-alone FullyConnectedLayer
FcInput == 2
FcOutput == 2
\* the largest number of backward calls on it
MaxBackward == 2
\* the batch sizes of the arrays passed to the stand-alone layers
LayerBatches == {1, 2}
\* the rows of the arrays passed to the stand-alone FullyConnectedLayer
FcRows == {<<1, -1>>, <<2, 1>>}
FcGradRows == {<<1, -1>>, <<-1, 2>>}
\* the entries of the arrays passed to the stand-alone ReLULayer
ReluEntries == {-1, 0, 2}

\* the 2-D integer arrays of b rows, each row from R
ArraysOfRows(R, b) == {Arr2([r \in 1 .. b |-> IntRow(m[r])]) : m \in [1 .. b -> R]}

FcInit ==
    /\ \E w \in Randn(FcInput, FcOutput), b \in Randn(1, FcOutput) :
         fc = FullyConnectedLayer(w, b)
    /\ fc_last = "init"
    /\ fc_arg = None
    /\ fc_ret = None
    /\ fc_nback = 0
    /\ fc_sum = [W |-> zeros_like(fc.W.value), B |-> zeros_like(fc.B.value)]

FcOff ==
    /\ fc = None /\ fc_last = "off" /\ fc_arg = None /\ fc_ret = None
    /\ fc_nback = 0 /\ fc_sum = None

ReluInit ==
    /\ relu = ReLULayer
    /\ relu_last = "init"
    /\ relu_arg = None
    /\ relu_in = None
    /\ relu_ret = None

ReluOff ==
    /\ relu = None /\ relu_last = "off" /\ relu_arg = None /\ relu_in = None
    /\ relu_ret = None

FcForward ==
    \E b \in LayerBatches : \E X \in ArraysOfRows(FcRows, b) :
        LET call == FullyConnectedLayer_forward(fc, X)
        IN  /\ fc' = call.self
            /\ fc_arg' = call.arg
            /\ fc_ret' = call.ret
            /\ fc_last' = "forward"
            /\ UNCHANGED <<fc_nback, fc_sum>>

\* backward needs the input a forward call cached; d_out has one row per row of it
FcBackward ==
    /\ fc.X # None
    /\ fc_nback < MaxBackward
    /\ \E d_out \in ArraysOfRows(FcGradRows, NRows(fc.X)) :
        LET call == FullyConnectedLayer_backward(fc, d_out)
        IN  /\ fc' = call.self
            /\ fc_arg' = call.arg
            /\ fc_ret' = call.ret
            /\ fc_last' = "backward"
            /\ fc_nback' = fc_nback + 1
            /\ fc_sum' =
                [W |-> Arr2([i \in 1 .. FcInput |-> [j \in 1 .. FcOutput |->
                          FAdd(fc_sum.W.rows[i][j],
                               FSum([r \in 1 .. NRows(d_out) |->
                                       FMul(fc.X.rows[r][i], d_out.rows[r][j])]))]]),
                 B |-> Arr2(<<[j \in 1 .. FcOutput |->
                          FAdd(fc_sum.B.rows[1][j],
                               FSum([r \in 1 .. NRows(d_out) |-> d_out.rows[r][j]]))]>>)]

\* X has shape (1, 2) or (2, 1)
ReluForward ==
    \E b \in LayerBatches : \E X \in Arrays2(ReluEntries, b, 3 - b) :
        LET call == ReLULayer_forward(relu, X)
        IN  /\ relu' = call.self
            /\ relu_arg' = call.arg
            /\ relu_in' = X
            /\ relu_ret' = call.ret
            /\ relu_last' = "forward"

\* backward needs the input a forward call cached; d_out is shaped like it
ReluBackward ==
    /\ relu.X # None
    /\ \E d_out \in Arrays2(ReluEntries, NRows(relu.X), NCols(relu.X)) :
        LET call == ReLULayer_backward(relu, d_out)
        IN  /\ relu' = call.self
            /\ relu_arg' = call.arg
            /\ relu_in' = d_out
            /\ relu_ret' = call.ret
            /\ relu_last' = "backward"


(***************************************************************************)
(* model.py: TwoLayerNet                                                   *)
(***************************************************************************)
\* the constructor's arguments
NetInput == 2
NetHidden == 2
NetOutput == 2

Layer_forward(layer, X) ==
    IF layer.kind = "FC" THEN FullyConnectedLayer_forward(layer, X)
    ELSE ReLULayer_forward(layer, X)

Layer_backward(layer, d_out) ==
    IF layer.kind = "FC" THEN FullyConnectedLayer_backward(layer, d_out)
    ELSE ReLULayer_backward(layer, d_out)

Layer_params(layer) ==
    IF layer.kind = "FC" THEN FullyConnectedLayer_params(layer)
    ELSE ReLULayer_params(layer)

\* TwoLayerNet(n_input, n_output, hidden_layer_size, reg).layers, given the draws
TwoLayerNet(w0, b0, w2, b2) ==
    [n \in 0 .. 2 |->
        IF n = 0 THEN FullyConnectedLayer(w0, b0)
        ELSE IF n = 1 THEN ReLULayer
        ELSE FullyConnectedLayer(w2, b2)]

\* params(): the dict as the set of its items; an item refers to attribute
\* `name` of layer number `layer`
TwoLayerNet_params(layers) ==
    {[key |-> name \o "_" \o ToString(n), layer |-> n, name |-> name] :
        n \in DOMAIN layers, name \in {"W", "B"}}
    \cap {it \in [key : STRING, layer : DOMAIN layers, name : {"W", "B"}] :
            it.name \in DOMAIN Layer_params(layers[it.layer])}

\* the loop that leaves the gradients as they are
KeepGrads(layers) == layers

\* for param in self.params().values(): param.grad = np.zeros_like(param.value)
ZeroGrads(layers) ==
    LET Has(n, name) == \E it \in TwoLayerNet_params(layers) : it.layer = n /\ it.name = name
        Zeroed(param) == [param EXCEPT !.grad = zeros_like(param.value)]
    IN  [n \in DOMAIN layers |->
            IF layers[n].kind = "FC"
            THEN [layers[n] EXCEPT !.W = IF Has(n, "W") THEN Zeroed(@) ELSE @,
                                   !.B = IF Has(n, "B") THEN Zeroed(@) ELSE @]
            ELSE layers[n]]

\* the samples the net is called on: [X, y]
NetBatches ==
    {[X |-> Arr2(<<IntRow(<<1, -1>>)>>), y |-> <<0>>],
     [X |-> Arr2(<<IntRow(<<0, 1>>)>>), y |-> <<1>>],
     [X |-> Arr2(<<IntRow(<<1, -1>>), IntRow(<<0, 1>>)>>), y |-> <<1, 0>>],
     [X |-> Arr2(<<IntRow(<<1, 1>>), IntRow(<<-1, 0>>)>>), y |-> <<0, 0>>]}

\* the values of self.reg
NetRegs == {Const(1)}

Event(op, i, arg, ret) == [op |-> op, i |-> i, arg |-> arg, ret |-> ret]

NetInit ==
    /\ \E w0 \in Randn(NetInput, NetHidden), b0 \in Randn(1, NetHidden),
          w2 \in Randn(NetHidden, NetOutput), b2 \in Randn(1, NetOutput) :
         net_layers = TwoLayerNet(w0, b0, w2, b2)
    /\ net_reg \in NetRegs
    /\ net_pc = "idle"
    /\ net_i = 0
    /\ net_X = None
    /\ net_y = <<>>
    /\ net_res = None
    /\ net_loss = None
    /\ net_dres = None
    /\ net_last = "init"
    /\ net_ret = None
    /\ net_dirty = FALSE
    /\ net_trace = <<>>

NetOff ==
    /\ net_layers = None /\ net_reg = None /\ net_pc = "off" /\ net_i = 0
    /\ net_X = None /\ net_y = <<>> /\ net_res = None /\ net_loss = None
    /\ net_dres = None /\ net_last = "off" /\ net_ret = None /\ net_dirty = FALSE
    /\ net_trace = <<>>

\* compute_loss_and_gradients(X, y), up to the first loop: the gradients are
\* zeroed and res is a copy of X
NetCall ==
    /\ net_pc = "idle"
    /\ \E b \in NetBatches :
         /\ net_X' = b.X
         /\ net_y' = b.y
         /\ net_res' = b.X
    /\ net_layers' = ZeroGrads(net_layers)
    /\ net_pc' = "forward"
    /\ net_i' = 0
    /\ net_loss' = None
    /\ net_dres' = None
    /\ net_trace' = <<>>
    /\ net_dirty' = \E n \in {0, 2} : net_layers[n].W.grad # zeros_like(net_layers[n].W.value)
    /\ UNCHANGED <<net_reg, net_last, net_ret>>

\* for layer in self.layers: res = layer.forward(res)
NetForward ==
    /\ net_pc = "forward"
    /\ LET call == Layer_forward(net_layers[net_i], net_res)
       IN  /\ net_layers' = [net_layers EXCEPT ![net_i] = call.self]
           /\ net_res' = call.ret
           /\ net_trace' = Append(net_trace, Event("forward", net_i, net_res, call.ret))
    /\ IF net_i < 2 THEN net_i' = net_i + 1 /\ net_pc' = "forward"
       ELSE net_i' = 0 /\ net_pc' = "loss"
    /\ UNCHANGED <<net_reg, net_X, net_y, net_loss, net_dres, net_last, net_ret, net_dirty>>

\* loss, dres = softmax_with_cross_entropy(res, y)
NetLoss ==
    /\ net_pc = "loss"
    /\ LET call == softmax_with_cross_entropy(net_res, net_y)
       IN  /\ net_loss' = call.loss
           /\ net_dres' = call.dprediction
           /\ net_trace' = Append(net_trace, Event("loss", 0, net_res, call.dprediction))
    /\ net_pc' = "reg"
    /\ net_i' = 2
    /\ UNCHANGED <<net_layers, net_reg, net_X, net_y, net_res, net_last, net_ret, net_dirty>>

\* regularizing the bias instead
RegOnBias == "B"

\* the parameter of a layer that is regularized
RegName == "W"

\* in the loop over reversed(self.layers): W = layer.params().get('W') and,
\* if there is one, loss += loss_reg and W.grad += dW_reg
NetReg ==
    /\ net_pc = "reg"
    /\ IF RegName \in DOMAIN Layer_params(net_layers[net_i])
       THEN LET name == Layer_params(net_layers[net_i])[RegName]
                W == net_layers[net_i][name]
                l2 == l2_regularization(W.value, net_reg)
                grad == IAdd(W.grad, l2.grad)
            IN  /\ net_loss' = [net_loss EXCEPT !.lin = FAdd(@, l2.loss)]
                /\ net_layers' = [net_layers EXCEPT ![net_i][name].grad = grad]
                /\ net_trace' = Append(net_trace, Event("reg", net_i, l2.grad, grad))
       ELSE UNCHANGED <<net_loss, net_layers, net_trace>>
    /\ net_pc' = "backward"
    /\ UNCHANGED <<net_reg, net_i, net_X, net_y, net_res, net_dres, net_last, net_ret,
                   net_dirty>>

\* in the same loop: dres = layer.backward(dres)
NetBackward ==
    /\ net_pc = "backward"
    /\ LET call == Layer_backward(net_layers[net_i], net_dres)
       IN  /\ net_layers' = [net_layers EXCEPT ![net_i] = call.self]
           /\ net_dres' = call.ret
           /\ net_trace' = Append(net_trace, Event("backward", net_i, net_dres, call.ret))
    /\ IF net_i > 0 THEN net_i' = net_i - 1 /\ net_pc' = "reg"
       ELSE net_i' = 0 /\ net_pc' = "return"
    /\ UNCHANGED <<net_reg, net_X, net_y, net_res, net_loss, net_last, net_ret, net_dirty>>

\* return loss
NetReturn ==
    /\ net_pc = "return"
    /\ net_ret' = net_loss
    /\ net_last' = "loss"
    /\ net_pc' = "idle"
    /\ net_res' = None
    /\ net_loss' = None
    /\ net_dres' = None
    /\ UNCHANGED <<net_layers, net_reg, net_i, net_X, net_y, net_dirty, net_trace>>

\* np.argmax(res, axis=1): the 1-D array with, per row, the first column,
\* from 0, of the largest entry
ArgmaxAxis1(res) ==
    [ndim |-> 1,
     rows |-> <<Seq1([r \in 1 .. NRows(res) |->
        LET row == [c \in 1 .. NCols(res) |-> IntOf(res.rows[r][c])]
        IN  (CHOOSE c \in 1 .. Len(row) :
                /\ row[c] = MaxInts(row)
                /\ \A k \in 1 .. c - 1 : row[k] < row[c]) - 1])>>]

RECURSIVE ForwardAll(_, _, _)
\* layers n .. 2 applied to res in order: the layers and the result
ForwardAll(layers, n, res) ==
    IF n > 2 THEN [layers |-> layers, res |-> res]
    ELSE LET call == Layer_forward(layers[n], res)
         IN  ForwardAll([layers EXCEPT ![n] = call.self], n + 1, call.ret)

\* predict(X)
NetPredict ==
    /\ net_pc = "idle"
    /\ \E b \in NetBatches :
         LET fwd == ForwardAll(net_layers, 0, b.X)
         IN  /\ net_layers' = fwd.layers
             /\ net_ret' = ArgmaxAxis1(fwd.res)
    /\ net_last' = "predict"
    /\ UNCHANGED <<net_reg, net_pc, net_i, net_X, net_y, net_res, net_loss, net_dres,
                   net_dirty, net_trace>>

\* The optimizer that consumes the gradients is not part of these sources.
\* Between calls it rewrites Param values in place and leaves the gradients;
\* the values it writes are drawn like the initial ones.
NetOptimizerStep ==
    /\ net_pc = "idle"
    /\ net_last = "loss"
    /\ \E w0 \in Randn(NetInput, NetHidden), b0 \in Randn(1, NetHidden),
          w2 \in Randn(NetHidden, NetOutput), b2 \in Randn(1, NetOutput) :
         net_layers' = [net_layers EXCEPT ![0].W.value = w0, ![0].B.value = b0,
                                           ![2].W.value = w2, ![2].B.value = b2]
    /\ net_last' = "step"
    /\ UNCHANGED <<net_reg, net_pc, net_i, net_X, net_y, net_res, net_loss, net_dres,
                   net_ret, net_dirty, net_trace>>

(***************************************************************************)
(* linear_classifer.py: arithmetic                                         *)
(*                                                                         *)
(* fit feeds W back through exp, so its numbers are kept on a decimal      *)
(* fixed-point grid: the integer a stands for a / One.  Sums and           *)
(* differences are exact; a product, a quotient, exp and log are rounded   *)
(* to the nearest grid point, as a float operation rounds to the nearest   *)
(* float.  X holds grid numbers too; labels, indices, sizes and counts are *)
(* plain integers.                                                         *)
(***************************************************************************)
\* LogTable[p] is log(p / One) on the grid, for p = 1 .. One
LogTable == <<-23, -16, -12, -9, -7, -5, -4, -2, -1, 0>>

\* the grid number that stands for 1
One == Len(LogTable)

\* ExpTable[k + 1] is exp(-k / One) on the grid; beyond the table it is 0
ExpTable == <<10, 9, 8, 7, 7, 6, 5, 5, 4, 4, 4, 3, 3, 3, 2, 2, 2, 2, 2, 1,
              1, 1, 1, 1, 1, 1, 1, 1, 1, 1>>

\* n / d to the nearest integer, d > 0
Round(n, d) == (2 * n + d) \div (2 * d)

\* a * b and a / k (k a count) on the grid
GMul(a, b) == Round(a * b, One)
GDivInt(a, k) == Round(a, k)

\* np.exp(x) for x <= 0
GExp(x) == IF -x >= Len(ExpTable) THEN 0 ELSE ExpTable[1 - x]

\* np.log(p) for 0 < p <= 1
GLog(p) == LogTable[p]

\* np.dot(a, b) on the grid
lc_Dot(a, b) ==
    Arr2([r \in 1 .. NRows(a) |-> [c \in 1 .. NCols(b) |->
            SumInts([k \in 1 .. NCols(a) |-> GMul(a.rows[r][k], b.rows[k][c])])]])

\* a + b and a - k * b, entry by entry, for arrays of one shape
lc_Add(a, b) ==
    Arr2([r \in 1 .. NRows(a) |-> [c \in 1 .. NCols(a) |-> a.rows[r][c] + b.rows[r][c]]])

lc_SubScaled(a, k, b) ==
    Arr2([r \in 1 .. NRows(a) |-> [c \in 1 .. NCols(a) |->
            a.rows[r][c] - GMul(k, b.rows[r][c])]])

(***************************************************************************)
(* linear_classifer.py: the functions, for the 2-D predictions fit passes  *)
(***************************************************************************)
lc_softmax(predictions) ==
    LET P == predictions.rows
        max_pred_in_row == Seq1([r \in 1 .. Len(P) |-> MaxInts(P[r])])
        pred_exp == Rows([r \in 1 .. Len(P) |-> [c \in 1 .. Len(P[r]) |->
                        GExp(P[r][c] - max_pred_in_row[r])]])
        sum_pred_exp == Seq1([r \in 1 .. Len(P) |-> SumInts(pred_exp[r])])
    IN  Arr2([r \in 1 .. Len(P) |-> [c \in 1 .. Len(P[r]) |->
                Round(pred_exp[r][c] * One, sum_pred_exp[r])]])

\* -np.mean(np.log(probs[np.arange(target_index.size), target_index]))
lc_cross_entropy_loss(probs, target_index) ==
    -GDivInt(SumInts([i \in 1 .. Len(target_index) |->
                        GLog(probs.rows[i][target_index[i] + 1])]),
             Len(target_index))

lc_softmax_with_cross_entropy(predictions, target_index) ==
    LET probs == lc_softmax(predictions)
        loss == lc_cross_entropy_loss(probs, target_index)
        dprediction == Arr2([r \in 1 .. NRows(probs) |-> [c \in 1 .. NCols(probs) |->
                            GDivInt(probs.rows[r][c]
                                        - (IF target_index[r] + 1 = c THEN One ELSE 0),
                                    Len(target_index))]])
    IN  [loss |-> loss, dprediction |-> dprediction]

lc_l2_regularization(W, reg_strength) ==
    [loss |-> GMul(reg_strength,
                   SumInts([r \in 1 .. NRows(W) |->
                        SumInts([c \in 1 .. NCols(W) |-> GMul(W.rows[r][c], W.rows[r][c])])])),
     grad |-> Arr2([r \in 1 .. NRows(W) |-> [c \in 1 .. NCols(W) |->
                        GMul(GMul(2 * One, reg_strength), W.rows[r][c])]])]

linear_softmax(X, W, target_index) ==
    LET predictions == lc_Dot(X, W)
        sce == lc_softmax_with_cross_entropy(predictions, target_index)
    IN  [loss |-> sce.loss, dW |-> lc_Dot(Transpose(X), sce.dprediction)]

\* whether linear_softmax raises: np.dot on shapes that do not match
\* (ValueError), or a label that is no column of probs (IndexError)
linear_softmax_raises(X, W, target_index) ==
    \/ NCols(X) # NRows(W)
    \/ \E i \in 1 .. Len(target_index) : target_index[i] >= NCols(W)

(***************************************************************************)
(* linear_classifer.py: LinearSoftmaxClassifier                            *)
(***************************************************************************)
\* np.arange(start, stop, step), step > 0
Arange(start, stop, step) ==
    LET len == IF stop > start THEN (stop - start + step - 1) \div step ELSE 0
    IN  [k \in 1 .. len |-> start + (k - 1) * step]

\* ary[st:end] of a 1-D array: the bounds are clipped to the array
Slice(ary, st, end) ==
    LET lo == IF st > Len(ary) THEN Len(ary) ELSE st
        hi == IF end > Len(ary) THEN Len(ary) ELSE end
    IN  IF hi > lo THEN SubSeq(ary, lo + 1, hi) ELSE <<>>

\* np.array_split(ary, indices): the pieces between consecutive division
\* points 0, indices..., len(ary)
ArraySplit(ary, indices) ==
    LET div_points == <<0>> \o indices \o <<Len(ary)>>
    IN  [i \in 1 .. Len(indices) + 1 |-> Slice(ary, div_points[i], div_points[i + 1])]

\* the division points that include num_train itself
SectionsInclusive(batch_size, num_train) == Arange(batch_size, num_train + 1, batch_size)

\* sections = np.arange(batch_size, num_train, batch_size)
Sections(batch_size, num_train) == Arange(batch_size, num_train, batch_size)

\* what np.random.shuffle can leave of np.arange(n)
Shuffles(n) ==
    {p \in [1 .. n -> 0 .. n - 1] : \A i, j \in 1 .. n : p[i] = p[j] => i = j}

\* X[batch_indices] and y[batch_indices]
TakeRows(X, batch_indices) ==
    Arr2([k \in 1 .. Len(batch_indices) |-> X.rows[batch_indices[k] + 1]])

Take(y, batch_indices) == Seq1([k \in 1 .. Len(batch_indices) |-> y[batch_indices[k] + 1]])

\* 0.001 * np.random.randn(num_features, num_classes): the draws of the model
lc_Randn(num_features, num_classes) ==
    {Arr2([r \in 1 .. num_features |-> [c \in 1 .. num_classes |->
            IF (r + c) % 2 = 0 THEN a ELSE -a]]) : a \in {-3, 4}}

\* self.W made anew by every call
InitWAlways(W, num_features, num_classes) == lc_Randn(num_features, num_classes)

\* if self.W is None: self.W = 0.001 * np.random.randn(...): the values
\* self.W can have afterwards
InitW(W, num_features, num_classes) ==
    IF W = None THEN lc_Randn(num_features, num_classes) ELSE {W}

\* the body of the batch loop with the update made before the losses
BatchStepUpdateFirst(W, batch_X, batch_y, learning_rate, reg, loss, cnt) ==
    LET ls == linear_softmax(batch_X, W, batch_y)
        l2 == lc_l2_regularization(W, reg)
        newW == lc_SubScaled(W, learning_rate, lc_Add(ls.dW, l2.grad))
    IN  [W |-> newW,
         loss |-> loss + (linear_softmax(batch_X, newW, batch_y).loss
                            + lc_l2_regularization(newW, reg).loss),
         cnt |-> cnt + 1]

\* the body of the batch loop, when nothing raises: the new W, loss and cnt
BatchStep(W, batch_X, batch_y, learning_rate, reg, loss, cnt) ==
    LET ls == linear_softmax(batch_X, W, batch_y)
        l2 == lc_l2_regularization(W, reg)
        dW == lc_Add(ls.dW, l2.grad)
    IN  [W |-> lc_SubScaled(W, learning_rate, dW),
         loss |-> loss + (ls.loss + l2.loss),
         cnt |-> cnt + 1]

\* np.argmax(y, axis=1) on the grid
lc_ArgmaxAxis1(res) ==
    [ndim |-> 1,
     rows |-> <<Seq1([r \in 1 .. NRows(res) |->
        (CHOOSE c \in 1 .. NCols(res) :
            /\ res.rows[r][c] = MaxInts(res.rows[r])
            /\ \A k \in 1 .. c - 1 : res.rows[r][k] < res.rows[r][c]) - 1])>>]

\* the most batch_size, epochs (over the life of the classifier) and fit
\* calls the model makes
MaxBatchSize == 3
MaxEpochs == 2
MaxFits == 2

\* the training sets fit is called on: three samples of two classes, two
\* samples of three classes, one sample with one feature
FitData ==
    {[X |-> Arr2(<<<<One, 0>>, <<0, One>>, <<One, One>>>>), y |-> <<0, 1, 0>>],
     [X |-> Arr2(<<<<One, 0>>, <<0, One>>>>), y |-> <<0, 2>>],
     [X |-> Arr2(<<<<One>>>>), y |-> <<1>>]}

\* the learning rates and regularization strengths, on the grid
LearningRates == {2}
FitRegs == {5}

\* a Python list as the 1-D array of its entries
List(s) == [ndim |-> 1, rows |-> <<s>>]

LcInit ==
    /\ lc_W = None
    /\ lc_pc = "idle"
    /\ lc_args = None
    /\ lc_epoch = 0
    /\ lc_batches = <<>>
    /\ lc_b = 0
    /\ lc_loss = 0
    /\ lc_cnt = 0
    /\ lc_loss_history = <<>>
    /\ lc_last = "init"
    /\ lc_ret = None
    /\ lc_nfit = 0
    /\ lc_used = 0
    /\ lc_W0 = None
    /\ lc_splits = <<>>

LcOff ==
    /\ lc_W = None /\ lc_pc = "off" /\ lc_args = None /\ lc_epoch = 0
    /\ lc_batches = <<>> /\ lc_b = 0 /\ lc_loss = 0 /\ lc_cnt = 0
    /\ lc_loss_history = <<>> /\ lc_last = "off" /\ lc_ret = None /\ lc_nfit = 0
    /\ lc_used = 0 /\ lc_W0 = None /\ lc_splits = <<>>

\* fit(X, y, batch_size, learning_rate, reg, epochs), up to the epoch loop
FitBegin ==
    /\ lc_pc = "idle"
    /\ lc_nfit < MaxFits
    /\ \E d \in FitData, batch_size \in 1 .. MaxBatchSize,
          learning_rate \in LearningRates, reg \in FitRegs,
          epochs \in 0 .. MaxEpochs - lc_used :
         LET num_features == NCols(d.X)
             num_classes == MaxInts(d.y) + 1
         IN  /\ lc_args' = [X |-> d.X, y |-> d.y, batch_size |-> batch_size,
                            learning_rate |-> learning_rate, reg |-> reg,
                            epochs |-> epochs]
             /\ lc_W' \in InitW(lc_W, num_features, num_classes)
             /\ lc_used' = lc_used + epochs
    /\ lc_W0' = lc_W'
    /\ lc_loss_history' = <<>>
    /\ lc_epoch' = 0
    /\ lc_pc' = "epoch"
    /\ lc_last' = "fit"
    /\ lc_ret' = None
    /\ lc_nfit' = lc_nfit + 1
    /\ lc_splits' = <<>>
    /\ lc_batches' = <<>>
    /\ lc_b' = 0
    /\ lc_loss' = 0
    /\ lc_cnt' = 0

\* the head of the epoch loop, for an epoch to run: the batches are made and
\* loss and cnt are set to 0
FitEpoch ==
    /\ lc_pc = "epoch"
    /\ lc_epoch < lc_args.epochs
    /\ LET num_train == NRows(lc_args.X)
           sections == Sections(lc_args.batch_size, num_train)
       IN  \E shuffled_indices \in Shuffles(num_train) :
                lc_batches' = ArraySplit(shuffled_indices, sections)
    /\ lc_splits' = Append(lc_splits, lc_batches')
    /\ lc_loss' = 0
    /\ lc_cnt' = 0
    /\ lc_b' = 1
    /\ lc_pc' = "batch"
    /\ UNCHANGED <<lc_W, lc_args, lc_epoch, lc_loss_history, lc_last, lc_ret, lc_nfit,
                   lc_used, lc_W0>>

\* one turn of the batch loop; an exception leaves fit with W as it is
FitBatch ==
    /\ lc_pc = "batch"
    /\ lc_b <= Len(lc_batches)
    /\ LET batch_indices == lc_batches[lc_b]
           batch_X == TakeRows(lc_args.X, batch_indices)
           batch_y == Take(lc_args.y, batch_indices)
       IN  IF linear_softmax_raises(batch_X, lc_W, batch_y)
           THEN /\ lc_pc' = "idle"
                /\ lc_last' = "raised"
                /\ UNCHANGED <<lc_W, lc_loss, lc_cnt, lc_b>>
           ELSE \E step \in {BatchStep(lc_W, batch_X, batch_y, lc_args.learning_rate,
                                       lc_args.reg, lc_loss, lc_cnt)} :
                    /\ lc_W' = step.W
                    /\ lc_loss' = step.loss
                    /\ lc_cnt' = step.cnt
                    /\ lc_b' = lc_b + 1
                    /\ UNCHANGED <<lc_pc, lc_last>>
    /\ UNCHANGED <<lc_args, lc_epoch, lc_batches, lc_loss_history, lc_ret, lc_nfit,
                   lc_used, lc_W0, lc_splits>>

\* after the last batch: loss_history.append(loss / cnt)
FitEpochEnd ==
    /\ lc_pc = "batch"
    /\ lc_b > Len(lc_batches)
    /\ lc_loss_history' = Append(lc_loss_history, GDivInt(lc_loss, lc_cnt))
    /\ lc_epoch' = lc_epoch + 1
    /\ lc_pc' = "epoch"
    /\ UNCHANGED <<lc_W, lc_args, lc_batches, lc_b, lc_loss, lc_cnt, lc_last, lc_ret,
                   lc_nfit, lc_used, lc_W0, lc_splits>>

\* after the last epoch: return loss_history
FitReturn ==
    /\ lc_pc = "epoch"
    /\ lc_epoch >= lc_args.epochs
    /\ lc_ret' = List(lc_loss_history)
    /\ lc_last' = "returned"
    /\ lc_pc' = "idle"
    /\ UNCHANGED <<lc_W, lc_args, lc_epoch, lc_batches, lc_b, lc_loss, lc_cnt,
                   lc_loss_history, lc_nfit, lc_used, lc_W0, lc_splits>>

\* predict(X); np.dot raises when W is None or the shapes do not match.
\* What was kept of the fit call before is dropped.
LcPredict ==
    /\ lc_pc = "idle"
    /\ \E d \in FitData :
         IF lc_W = None \/ NCols(d.X) # NRows(lc_W)
         THEN lc_last' = "raised" /\ lc_ret' = None
         ELSE lc_last' = "predict" /\ lc_ret' = lc_ArgmaxAxis1(lc_Dot(d.X, lc_W))
    /\ lc_args' = None
    /\ lc_epoch' = 0
    /\ lc_batches' = <<>>
    /\ lc_b' = 0
    /\ lc_loss' = 0
    /\ lc_cnt' = 0
    /\ lc_loss_history' = <<>>
    /\ lc_W0' = None
    /\ lc_splits' = <<>>
    /\ UNCHANGED <<lc_W, lc_pc, lc_nfit, lc_used>>

(***************************************************************************)
(* Specifications                                                          *)
(***************************************************************************)
InitSce == SceInit /\ FcOff /\ ReluOff /\ NetOff /\ LcOff
NextSce == SceCall /\ UNCHANGED <<fcVars, reluVars, netVars, lcVars>>
SpecSce == InitSce /\ [][NextSce]_vars

InitFc == FcInit /\ SceOff /\ ReluOff /\ NetOff /\ LcOff
NextFc ==
    \/ FcForward /\ UNCHANGED <<sceVars, reluVars, netVars, lcVars>>
    \/ FcBackward /\ UNCHANGED <<sceVars, reluVars, netVars, lcVars>>
SpecFc == InitFc /\ [][NextFc]_vars

InitRelu == ReluInit /\ SceOff /\ FcOff /\ NetOff /\ LcOff
NextRelu ==
    \/ ReluForward /\ UNCHANGED <<sceVars, fcVars, netVars, lcVars>>
    \/ ReluBackward /\ UNCHANGED <<sceVars, fcVars, netVars, lcVars>>
SpecRelu == InitRelu /\ [][NextRelu]_vars

InitNet == NetInit /\ SceOff /\ FcOff /\ ReluOff /\ LcOff
NextNet ==
    \/ NetCall /\ UNCHANGED <<sceVars, fcVars, reluVars, lcVars>>
    \/ NetForward /\ UNCHANGED <<sceVars, fcVars, reluVars, lcVars>>
    \/ NetLoss /\ UNCHANGED <<sceVars, fcVars, reluVars, lcVars>>
    \/ NetReg /\ UNCHANGED <<sceVars, fcVars, reluVars, lcVars>>
    \/ NetBackward /\ UNCHANGED <<sceVars, fcVars, reluVars, lcVars>>
    \/ NetReturn /\ UNCHANGED <<sceVars, fcVars, reluVars, lcVars>>
    \/ NetPredict /\ UNCHANGED <<sceVars, fcVars, reluVars, lcVars>>
    \/ NetOptimizerStep /\ UNCHANGED <<sceVars, fcVars, reluVars, lcVars>>
SpecNet == InitNet /\ [][NextNet]_vars

InitFit == LcInit /\ SceOff /\ FcOff /\ ReluOff /\ NetOff
NextFit ==
    \/ FitBegin /\ UNCHANGED <<sceVars, fcVars, reluVars, netVars>>
    \/ FitEpoch /\ UNCHANGED <<sceVars, fcVars, reluVars, netVars>>
    \/ FitBatch /\ UNCHANGED <<sceVars, fcVars, reluVars, netVars>>
    \/ FitEpochEnd /\ UNCHANGED <<sceVars, fcVars, reluVars, netVars>>
    \/ FitReturn /\ UNCHANGED <<sceVars, fcVars, reluVars, netVars>>
    \/ LcPredict /\ UNCHANGED <<sceVars, fcVars, reluVars, netVars>>
SpecFit == InitFit /\ [][NextFit]_vars

(***************************************************************************)
(* Properties of the stand-alone layers                                    *)
(***************************************************************************)
\* C3: FullyConnectedLayer.backward(d_out) adds to the gradients: with G_W, G_B
\* the gradients before the call and X the cached input, it leaves
\* W.grad = G_W + transpose(X) * d_out and B.grad = G_B + column sums of d_out
\* (shapes kept), leaves W.value and B.value alone and returns
\* d_out * transpose(W.value); and after k backward calls with no zeroing the
\* gradients are the sums of the k contributions.
C3_Accumulates ==
    /\ [][fc_nback' = fc_nback + 1 =>
            LET d == fc_arg'
            IN  /\ Shape(fc'.W.grad) = Shape(fc.W.grad)
                /\ Shape(fc'.B.grad) = Shape(fc.B.grad)
                /\ \A i \in 1 .. FcInput : \A j \in 1 .. FcOutput :
                     FEq(fc'.W.grad.rows[i][j],
                         FAdd(fc.W.grad.rows[i][j],
                              FSum([r \in 1 .. NRows(d) |-> FMul(fc.X.rows[r][i], d.rows[r][j])])))
                /\ \A j \in 1 .. FcOutput :
                     FEq(fc'.B.grad.rows[1][j],
                         FAdd(fc.B.grad.rows[1][j], FSum([r \in 1 .. NRows(d) |-> d.rows[r][j]])))
                /\ fc'.W.value = fc.W.value
                /\ fc'.B.value = fc.B.value
                /\ fc'.X = fc.X
                /\ Shape(fc_ret') = <<NRows(d), FcInput>>
                /\ \A r \in 1 .. NRows(d) : \A i \in 1 .. FcInput :
                     FEq(fc_ret'.rows[r][i],
                         FSum([j \in 1 .. FcOutput |-> FMul(d.rows[r][j], fc.W.value.rows[i][j])]))
         ]_vars
    /\ [](fc_last # "off" => ArrEq(fc.W.grad, fc_sum.W) /\ ArrEq(fc.B.grad, fc_sum.B))

\* two backward calls on a batch of two have left a nonzero gradient
C3_Witness ==
    /\ fc_last = "backward"
    /\ fc_nback = 2
    /\ NRows(fc.X) = 2
    /\ \E i \in 1 .. FcInput, j \in 1 .. FcOutput : ~FEq(fc.W.grad.rows[i][j], Const(0))
    /\ \E j \in 1 .. FcOutput : ~FEq(fc.B.grad.rows[1][j], Const(0))

\* C7: ReLULayer.backward(d_out), after forward(X) with d_out shaped like X,
\* returns an array shaped like d_out that is 0 where the cached X is < 0 and
\* equals d_out everywhere else (also where X = 0), and it leaves the caller's
\* d_out and the cached X as they were.
C7_ReluBackward ==
    /\ [](relu_last = "backward" =>
            /\ Shape(relu_ret) = Shape(relu_in)
            /\ \A r \in 1 .. NRows(relu_in) : \A c \in 1 .. NCols(relu_in) :
                 relu_ret.rows[r][c] = IF IntOf(relu.X.rows[r][c]) < 0 THEN Const(0)
                                       ELSE relu_in.rows[r][c]
            /\ relu_arg = relu_in)
    /\ [][relu_last' = "backward" => relu'.X = relu.X]_vars

\* backward has met a negative, a zero and a positive cached input, each under
\* a nonzero d_out entry
C7_Witness ==
    /\ relu_last = "backward"
    /\ \E r \in 1 .. NRows(relu_in) : \E c \in 1 .. NCols(relu_in) :
         IntOf(relu.X.rows[r][c]) < 0 /\ relu_in.rows[r][c] # Const(0)
    /\ \E r \in 1 .. NRows(relu_in) : \E c \in 1 .. NCols(relu_in) :
         IntOf(relu.X.rows[r][c]) = 0 /\ relu_in.rows[r][c] # Const(0)
         /\ relu_ret.rows[r][c] = relu_in.rows[r][c]

(***************************************************************************)
(* Properties of TwoLayerNet                                               *)
(***************************************************************************)
\* C1: compute_loss_and_gradients zeroes every gradient when it starts: the
\* gradients a call leaves are those the call leaves from all-zero gradients,
\* that is 2 * reg * W + transpose(input) * d for each weight and the column
\* sums of d for each bias, d the gradient at the layer's output for this
\* call's X, y and parameter values; nothing of an earlier call remains.
C1_NoAccumulationAcrossCalls ==
    (net_pc = "idle" /\ net_last = "loss") =>
        LET W0 == net_layers[0].W.value
            B0 == net_layers[0].B.value
            W2 == net_layers[2].W.value
            B2 == net_layers[2].B.value
            X == net_X
            n == NRows(X)
            two_reg == FMul(Const(2), net_reg)
            pre == BAdd(Dot(X, W0), B0)
            h == Arr2([r \in 1 .. n |-> [c \in 1 .. NetHidden |->
                        IF IntOf(pre.rows[r][c]) < 0 THEN Const(0) ELSE pre.rows[r][c]]])
            p == softmax(BAdd(Dot(h, W2), B2))
            d == Arr2([r \in 1 .. n |-> [c \in 1 .. NetOutput |->
                        FDiv(FSub(p.rows[r][c], Const(IF net_y[r] + 1 = c THEN 1 ELSE 0)),
                             Const(n))]])
            dh == Arr2([r \in 1 .. n |-> [i \in 1 .. NetHidden |->
                        IF IntOf(pre.rows[r][i]) < 0 THEN Const(0)
                        ELSE FSum([j \in 1 .. NetOutput |->
                                    FMul(d.rows[r][j], W2.rows[i][j])])]])
            GradW(W, in, dout) ==
                Arr2([i \in 1 .. NRows(W) |-> [j \in 1 .. NCols(W) |->
                        FAdd(FMul(two_reg, W.rows[i][j]),
                             FSum([r \in 1 .. n |-> FMul(in.rows[r][i], dout.rows[r][j])]))]])
            GradB(dout) ==
                Arr2(<<[j \in 1 .. NCols(dout) |-> FSum([r \in 1 .. n |-> dout.rows[r][j]])]>>)
        IN  /\ ArrEq(net_layers[2].W.grad, GradW(W2, h, d))
            /\ ArrEq(net_layers[2].B.grad, GradB(d))
            /\ ArrEq(net_layers[0].W.grad, GradW(W0, X, dh))
            /\ ArrEq(net_layers[0].B.grad, GradB(dh))

\* a call has returned that began with gradients left by an earlier call
C1_Witness ==
    /\ net_pc = "idle"
    /\ net_last = "loss"
    /\ net_dirty
    /\ NRows(net_X) = 2
    /\ \E j \in 1 .. NetOutput : ~FEq(net_layers[2].B.grad.rows[1][j], Const(0))

\* C2: in every reachable state the grad of every Parameter of the net (W and
\* B of both FullyConnected layers) has the shape of its value.
C2_GradShape ==
    net_pc # "off" =>
        \A n \in {0, 2} :
            /\ Shape(net_layers[n].W.grad) = Shape(net_layers[n].W.value)
            /\ Shape(net_layers[n].B.grad) = Shape(net_layers[n].B.value)

\* the backward of layer 2 has added the column sums of a batch of two to the
\* (1 x n_output) bias gradient
C2_Witness ==
    /\ net_pc = "reg"
    /\ net_i = 1
    /\ NRows(net_X) = 2
    /\ Shape(net_layers[2].B.grad) = <<1, NetOutput>>
    /\ \E j \in 1 .. NetOutput : ~FEq(net_layers[2].B.grad.rows[1][j], Const(0))

\* the steps of one call in the order the code takes them
NetOrder ==
    <<[op |-> "forward", i |-> 0], [op |-> "forward", i |-> 1], [op |-> "forward", i |-> 2],
      [op |-> "loss", i |-> 0],
      [op |-> "reg", i |-> 2], [op |-> "backward", i |-> 2],
      [op |-> "backward", i |-> 1],
      [op |-> "reg", i |-> 0], [op |-> "backward", i |-> 0]>>

\* C9: in one compute_loss_and_gradients call the forwards run in layer order
\* 0, 1, 2, each on the result of the one before (layer 0 on X), then the loss
\* on the last result, then the layers in reverse order 2, 1, 0: each
\* backward runs once, on the gradient the backward before it returned (the
\* loss gradient for layer 2); for layers 2 and 0 the L2 gradient 2 * reg * W
\* is added to W.grad before the layer's backward and the L2 loss to the
\* returned loss; the ReLU layer and the biases get no regularization: a
\* bias gradient is the column sums of its layer's d_out.
C9_Order ==
    net_pc # "off" =>
        LET T == net_trace
            n == Len(T)
            two_reg == FMul(Const(2), net_reg)
            \* the call is running or was the last thing to happen
            Current == net_pc # "idle" \/ net_last = "loss"
            SumSq(W) == FSum([r \in 1 .. NRows(W) |->
                            FSum([c \in 1 .. NCols(W) |-> FMul(W.rows[r][c], W.rows[r][c])])])
        IN  /\ n <= Len(NetOrder)
            /\ \A k \in 1 .. n : T[k].op = NetOrder[k].op /\ T[k].i = NetOrder[k].i
            /\ n >= 1 => T[1].arg = net_X
            /\ \A k \in {2, 3, 4} : n >= k => T[k].arg = T[k - 1].ret
            /\ n >= 6 => T[6].arg = T[4].ret
            /\ n >= 7 => T[7].arg = T[6].ret
            /\ n >= 9 => T[9].arg = T[7].ret
            /\ \A k \in {5, 8} : (n >= k /\ Current) =>
                    LET W == net_layers[T[k].i].W
                    IN  /\ ArrEq(T[k].arg, ArrScale(two_reg, W.value))
                        /\ ArrEq(T[k].ret, T[k].arg)
                        /\ n = k => W.grad = T[k].ret
            /\ (n >= 6 /\ Current) =>
                    ArrEq(net_layers[2].B.grad, Arr2(SumAxis0(T[6].arg).rows))
            /\ (n >= 9 /\ Current) =>
                    ArrEq(net_layers[0].B.grad, Arr2(SumAxis0(T[9].arg).rows))
            /\ (net_pc = "idle" /\ net_last = "loss") =>
                    /\ n = Len(NetOrder)
                    /\ FEq(net_ret.lin,
                           FAdd(FMul(net_reg, SumSq(net_layers[2].W.value)),
                                FMul(net_reg, SumSq(net_layers[0].W.value))))
                    /\ net_ret.logs = softmax_with_cross_entropy(T[4].arg, net_y).loss.logs

\* a call on a batch of two has returned with both weights regularized
C9_Witness ==
    /\ net_pc = "idle"
    /\ net_last = "loss"
    /\ Len(net_trace) = Len(NetOrder)
    /\ NRows(net_X) = 2
    /\ ~ArrEq(net_trace[5].arg, zeros_like(net_trace[5].arg))
    /\ ~ArrEq(net_trace[8].arg, zeros_like(net_trace[8].arg))
    /\ ~FEq(net_ret.lin, Const(0))

\* the step is the optimizer's
IsOptimizerStep == net_pc = "idle" /\ net_last = "loss" /\ net_last' = "step"

\* the step is the backward call of layer n
IsBackwardOf(n) == net_pc = "backward" /\ net_i = n

\* C10 as stated: a Parameter's value and grad change only in its owning
\* layer's backward call and in the optimizer step.
C10_OnlyBackwardAndOptimizer ==
    [][\A n \in {0, 2} : \A name \in {"W", "B"} :
            (\/ ~ArrEq(net_layers'[n][name].value, net_layers[n][name].value)
             \/ ~ArrEq(net_layers'[n][name].grad, net_layers[n][name].grad))
            => (IsBackwardOf(n) \/ IsOptimizerStep)
      ]_vars

\* C10 amended: a Parameter's value changes only in the optimizer step; its
\* grad changes only in its owning layer's backward call and in the model
\* level code of compute_loss_and_gradients, which sets every grad to zeros
\* when the call starts and adds 2 * reg * W to the grad of a layer's W right
\* before that layer's backward; forward, the loss function, the return,
\* predict and params change no Parameter.
C10_ParamWriters ==
    [][\A n \in {0, 2} : \A name \in {"W", "B"} :
            LET p == net_layers[n][name]
                q == net_layers'[n][name]
            IN  /\ q.value # p.value => IsOptimizerStep
                /\ q.grad # p.grad =>
                     \/ IsBackwardOf(n)
                     \/ /\ net_pc = "idle" /\ net_pc' = "forward"
                        /\ q.grad = zeros_like(p.value)
                     \/ /\ net_pc = "reg" /\ net_i = n /\ name = "W"
                        /\ ArrEq(q.grad, IAdd(p.grad, ArrScale(FMul(Const(2), net_reg), p.value)))
      ]_vars

\* the model level code has zeroed gradients an earlier call left and has just
\* added a nonzero L2 gradient to layer 0's W; predict has run before
C10_Witness ==
    /\ net_pc = "backward"
    /\ net_i = 0
    /\ net_dirty
    /\ net_last = "predict"
    /\ Len(net_trace) = 8
    /\ ~ArrEq(net_trace[8].ret, zeros_like(net_trace[8].ret))

(***************************************************************************)
(* Properties of LinearSoftmaxClassifier.fit                               *)
(***************************************************************************)
\* C4: in fit with num_train >= 1 and batch_size >= 1 the batches of an epoch
\* partition the indices 0 .. num_train - 1: every index is at exactly one
\* place of exactly one batch, there are ceil(num_train / batch_size)
\* batches, every batch but the last has batch_size indices, the last has at
\* least one and at most batch_size (one batch of all the samples when
\* batch_size >= num_train).
C4_BatchesPartition ==
    lc_pc = "batch" =>
        LET num_train == NRows(lc_args.X)
            batch_size == lc_args.batch_size
            B == lc_batches
            Places(i) == {<<k, j>> \in (1 .. Len(B)) \X (1 .. num_train) :
                            j <= Len(B[k]) /\ B[k][j] = i}
        IN  /\ num_train >= 1 /\ batch_size >= 1
            /\ \A i \in 0 .. num_train - 1 : Cardinality(Places(i)) = 1
            /\ \A k \in 1 .. Len(B) : \A j \in 1 .. Len(B[k]) : B[k][j] \in 0 .. num_train - 1
            /\ Len(B) * batch_size >= num_train
            /\ (Len(B) - 1) * batch_size < num_train
            /\ \A k \in 1 .. Len(B) - 1 : Len(B[k]) = batch_size
            /\ Len(B[Len(B)]) >= 1
            /\ Len(B[Len(B)]) <= batch_size
            /\ batch_size >= num_train => Len(B) = 1 /\ Len(B[1]) = num_train

\* three samples in batches of two: one full batch and a last batch of one;
\* the first batch has been worked
C4_Witness ==
    /\ lc_pc = "batch"
    /\ lc_b = 2
    /\ NRows(lc_args.X) = 3
    /\ lc_args.batch_size = 2
    /\ Len(lc_batches) = 2
    /\ Len(lc_batches[2]) = 1

\* C5: over the fit calls on one classifier W is created once, in the first
\* fit call, with shape (num_features, max(y) + 1) of that call's data; a
\* later fit call starts from the W the call before left, and no step makes
\* W anew or changes its shape, whatever max(y) of the later call is.
C5_CreatedOnce ==
    /\ [](lc_nfit >= 1 => lc_W # None)
    /\ [][/\ (lc_W = None /\ lc_W' # None) =>
                /\ lc_pc = "idle" /\ lc_nfit = 0 /\ lc_nfit' = 1
                /\ Shape(lc_W') = <<NCols(lc_args'.X), MaxInts(lc_args'.y) + 1>>
          /\ lc_W # None => (lc_W' # None /\ Shape(lc_W') = Shape(lc_W))
          /\ (lc_W # None /\ lc_nfit' = lc_nfit + 1) => lc_W' = lc_W
         ]_vars

\* a second fit call, on labels with another max(y) than W has columns for,
\* has worked a batch
C5_Witness ==
    /\ lc_nfit = 2
    /\ lc_pc = "batch"
    /\ lc_cnt >= 1
    /\ lc_W # lc_W0
    /\ MaxInts(lc_args.y) + 1 # NCols(lc_W)

\* C6: fit returns one entry per epoch (none when epochs = 0); entry e is the
\* sum over the batches of epoch e of (loss1 + loss2) divided by the number
\* of batches, and W is updated once per batch by W -= learning_rate * dW,
\* both losses and both gradients of a batch coming from W as it was before
\* that batch's update.
C6_LossHistory ==
    (lc_pc = "idle" /\ lc_last = "returned") =>
        LET X == lc_args.X
            y == lc_args.y
            \* W after one batch and that batch's loss, from the W before it
            After(W, batch) ==
                LET cls == linear_softmax(TakeRows(X, batch), W, Take(y, batch))
                    l2 == lc_l2_regularization(W, lc_args.reg)
                IN  [W |-> Arr2([r \in 1 .. NRows(W) |-> [c \in 1 .. NCols(W) |->
                                W.rows[r][c] - GMul(lc_args.learning_rate,
                                                    cls.dW.rows[r][c] + l2.grad.rows[r][c])]]),
                     loss |-> cls.loss + l2.loss]
            \* the entries from epoch e on and W at the end, with W before
            \* batch k of epoch e and sum the losses of the batches before
            RECURSIVE From(_, _, _, _)
            From(e, k, W, sum) ==
                IF e > Len(lc_splits) THEN [W |-> W, entries |-> <<>>]
                ELSE IF k > Len(lc_splits[e])
                THEN LET rest == From(e + 1, 1, W, 0)
                     IN  [W |-> rest.W,
                          entries |-> <<GDivInt(sum, Len(lc_splits[e]))>> \o rest.entries]
                ELSE LET a == After(W, lc_splits[e][k])
                     IN  From(e, k + 1, a.W, sum + a.loss)
        IN  /\ Len(lc_splits) = lc_args.epochs
            /\ lc_ret.ndim = 1
            /\ Len(lc_ret.rows[1]) = lc_args.epochs
            /\ \E ref \in {From(1, 1, lc_W0, 0)} :
                    /\ lc_ret.rows[1] = ref.entries
                    /\ lc_W = ref.W

\* a fit call of two epochs, with more than one batch each, has returned two
\* different losses and has changed W
C6_Witness ==
    /\ lc_pc = "idle"
    /\ lc_last = "returned"
    /\ lc_args.epochs = 2
    /\ \A e \in 1 .. 2 : Len(lc_splits[e]) >= 2
    /\ lc_ret.rows[1][1] # lc_ret.rows[1][2]
    /\ lc_W # lc_W0

====
